---- MODULE Spec2Model ----
(***************************************************************************)
(* A model of src/app.js: the HTTP request handler of a small daemon with  *)
(* a home page, a health probe and a gated command endpoint (/cmd) that    *)
(* runs one of a fixed set of shell commands through child_process.exec.   *)
(*                                                                         *)
(* JavaScript values are written as strings; the two values undefined and  *)
(* null are the strings Undefined and Null, numbers are their decimal      *)
(* text.  A request is handled in one step (the handler is synchronous);   *)
(* the completion callback of exec runs in a later step of its own.        *)
(***************************************************************************)
EXTENDS Naturals, Sequences, FiniteSets, TLC

VARIABLES
    env,              \* process.env at startup: [PORT, ADMIN_API_KEY]
    PORT,             \* app.js:5
    REQUIRE_API_KEY,  \* app.js:6
    ADMIN_API_KEY,    \* app.js:7
    ALLOWED_COMMANDS, \* app.js:11-17
    req,              \* per connection: the request received, or NoReq
    res,              \* per connection: the ServerResponse object
    child,            \* per connection: the subprocess started by exec, or NoChild
    threw,            \* per connection: where an exception was raised, or "none"
    alive             \* FALSE once an exception escaped every handler

vars == <<env, PORT, REQUIRE_API_KEY, ADMIN_API_KEY, ALLOWED_COMMANDS,
          req, res, child, threw, alive>>

config == <<env, PORT, REQUIRE_API_KEY, ADMIN_API_KEY, ALLOWED_COMMANDS>>

-----------------------------------------------------------------------------
(* Bounds of the model. *)

\* Number of connections (requests) that can be open concurrently.
MaxConn == 2

\* Longest raw request path, in segments, of the single-request specification.
MaxPathLen == 2

Conns == 1..MaxConn

-----------------------------------------------------------------------------
(* JavaScript values. *)

Undefined == "undefined"
Null == "null"

\* The falsy values among those the program handles: !v, v || d, v ? a : b.
Truthy(v) == v \notin {Undefined, Null, ""}

\* a || b
Or(a, b) == IF Truthy(a) THEN a ELSE b

\* JSON.stringify(obj): a property whose value is undefined is left out,
\* one whose value is null is kept.
JSONstringify(obj) ==
    [k \in {x \in DOMAIN obj : obj[x] # Undefined} |-> obj[k]]

\* The properties every object inherits from Object.prototype (a sample).
ObjectPrototype ==
    [toString |-> "function toString", constructor |-> "function Object",
     hasOwnProperty |-> "function hasOwnProperty"]

\* Variant: the lookup `k in obj`, which sees inherited properties too.
HasOwnPropertyIn(obj, k) ==
    k \in (DOMAIN obj \cup DOMAIN ObjectPrototype)
\* Object.prototype.hasOwnProperty.call(obj, k): own keys only, exact match.
HasOwnProperty(obj, k) == k \in DOMAIN obj

\* obj[k]: own property first, then the prototype chain.
GetProperty(obj, k) ==
    IF k \in DOMAIN obj THEN obj[k]
    ELSE IF k \in DOMAIN ObjectPrototype THEN ObjectPrototype[k]
    ELSE Undefined

-----------------------------------------------------------------------------
(* Startup configuration, app.js:5-17. *)

PortOf(e) == Or(e.PORT, "80")

\* Variant: the key is required whenever the variable is set, even empty.
RequireApiKeyIfSet(e) == e.ADMIN_API_KEY # Undefined
\* !!process.env.ADMIN_API_KEY
RequireApiKeyOf(e) == Truthy(e.ADMIN_API_KEY)

AdminApiKeyOf(e) == Or(e.ADMIN_API_KEY, "")

AllowedCommands ==
    [uptime |-> "uptime", disk |-> "df -h", memory |-> "free -m"]

\* exec options, app.js:126
ExecTimeout == 5000
ExecMaxBuffer == 1048576

\* process.env: PORT unset or set, ADMIN_API_KEY unset, empty or set.
Environments ==
    { [PORT |-> Undefined, ADMIN_API_KEY |-> Undefined],
      [PORT |-> "8080", ADMIN_API_KEY |-> ""],
      [PORT |-> "8080", ADMIN_API_KEY |-> "secret"] }

-----------------------------------------------------------------------------
(* new URL(req.url, `http://${req.headers.host || 'localhost'}`), app.js:38 *)
(* A raw request target "/" s1 "/" s2 ... is the sequence of its segments:  *)
(* "/" is <<"">>, "/cmd" is <<"cmd">>, "/cmd/" is <<"cmd", "">> and "//" is *)
(* <<"", "">>.  The query is a sequence of <<name, value>> pairs.           *)

Failure == [failure |-> "Invalid URL"]

\* Host header values: the second is no valid host.
BadHost == "a b"
ValidHost(h) == h # BadHost

\* The path state of the URL parser: "." and ".." segments are resolved,
\* and a trailing one leaves an empty last segment.
RECURSIVE PathState(_, _)
PathState(segs, path) ==
    IF segs = <<>> THEN path
    ELSE LET s == Head(segs)
             last == Len(segs) = 1
             popped == IF path = <<>> THEN path ELSE SubSeq(path, 1, Len(path) - 1)
             next == IF s = ".." THEN (IF last THEN Append(popped, "") ELSE popped)
                     ELSE IF s = "." THEN (IF last THEN Append(path, "") ELSE path)
                     ELSE Append(path, s)
         IN  PathState(Tail(segs), next)

\* Leading empty segments ("//host/...") are skipped before the authority.
RECURSIVE SkipSlashes(_)
SkipSlashes(segs) ==
    IF segs # <<>> /\ Head(segs) = "" THEN SkipSlashes(Tail(segs)) ELSE segs

\* The parsed URL: [pathname, query], or Failure.
NewURL(url, host) ==
    IF ~ValidHost(Or(host, "localhost")) THEN Failure
    ELSE IF Len(url.segs) >= 2 /\ url.segs[1] = ""
         THEN \* scheme-relative: the first non-empty segment is the host
              LET rest == SkipSlashes(url.segs)
              IN  IF rest = <<>> THEN Failure
                  ELSE [pathname |-> PathState(Tail(rest), <<>>), query |-> url.query]
         ELSE [pathname |-> PathState(url.segs, <<>>), query |-> url.query]

\* fullUrl.searchParams.get(name): the first value of that name, or null.
RECURSIVE SearchParamsGet(_, _)
SearchParamsGet(query, name) ==
    IF query = <<>> THEN Null
    ELSE IF Head(query)[1] = name THEN Head(query)[2]
    ELSE SearchParamsGet(Tail(query), name)

\* Variant: a route matches every path that starts with its name.
IsPathPrefix(pathname, name) ==
    IF name = "/" THEN pathname \in {<<>>, <<"">>}
    ELSE pathname # <<>> /\ Head(pathname) = name
\* The pathnames the router compares with (pathname === '/cmd'), as
\* segment sequences.  An empty path is "/" as well.
IsPath(pathname, name) ==
    IF name = "/" THEN pathname \in {<<>>, <<"">>} ELSE pathname = <<name>>

-----------------------------------------------------------------------------
(* The ServerResponse object: the headers set, and what was written:       *)
(* one entry of head per writeHead, one entry of body per end.             *)

NewResponse == [headers |-> <<>>, head |-> <<>>, body |-> <<>>]

CORS ==
    [acao |-> "*", acam |-> "GET, POST, OPTIONS", acah |-> "Content-Type, x-api-key"]

Merge(f, g) ==
    [k \in DOMAIN f \cup DOMAIN g |-> IF k \in DOMAIN g THEN g[k] ELSE f[k]]

\* res.setHeader x 3, app.js:26-28
SetCorsHeaders(r) == [r EXCEPT !.headers = Merge(r.headers, CORS)]

\* res.writeHead(code, headers)
WriteHead(r, code, headers) ==
    [r EXCEPT !.headers = Merge(r.headers, headers), !.head = Append(r.head, code)]

\* res.end(data)
End(r, data) == [r EXCEPT !.body = Append(r.body, data)]

\* A body that is not JSON: the text written.
Raw(s) == [raw |-> s]

\* sendJson, app.js:19-22
sendJson(r, code, obj) ==
    End(WriteHead(r, code, [ctype |-> "application/json"]), JSONstringify(obj))

-----------------------------------------------------------------------------
(* child_process.exec, app.js:126.  The runner is an external collaborator: *)
(* it reports once, through the callback, either success or an error       *)
(* carrying the exit code and the signal.                                   *)

NoReq == [method |-> "none"]
NoChild == [pending |-> FALSE, started |-> FALSE]
\* The callback's first argument when the command succeeded: null.
NullError == [null |-> "null"]
NoReport == [kind |-> "none", err |-> NullError, stdout |-> Undefined, stderr |-> Undefined]

\* What subprocess `pid` running `cmd` prints.
Output(cmd, pid) == cmd \o " #" \o ToString(pid)

ErrorOf(message, code, signal) ==
    [message |-> message, code |-> code, signal |-> signal]

\* What the runner can report for subprocess `pid` running `cmd`: success,
\* a non-zero exit, the timeout's kill, the output cap, a failure to start.
RunnerReports(cmd, pid) ==
    { [kind |-> "success", err |-> NullError,
       stdout |-> Output(cmd, pid), stderr |-> ""],
      [kind |-> "exit", err |-> ErrorOf("Command failed: " \o cmd, "1", Null),
       stdout |-> "", stderr |-> Output(cmd, pid)],
      [kind |-> "timeout", err |-> ErrorOf("Command failed: " \o cmd, Null, "SIGTERM"),
       stdout |-> Output(cmd, pid), stderr |-> ""],
      [kind |-> "overflow",
       err |-> ErrorOf("stdout maxBuffer length exceeded",
                       "ERR_CHILD_PROCESS_STDIO_MAXBUFFER", Undefined),
       stdout |-> Output(cmd, pid), stderr |-> ""],
      [kind |-> "spawn", err |-> ErrorOf("spawn /bin/sh EAGAIN", "EAGAIN", Undefined),
       stdout |-> "", stderr |-> ""] }

ReportKinds == {"success", "exit", "timeout", "overflow", "spawn"}

\* exec(shellCommand, {timeout, maxBuffer}, callback): the subprocess, with
\* what the callback closes over (commandName).
Exec(shellCommand, commandName) ==
    [pending |-> TRUE, started |-> TRUE, cmd |-> shellCommand,
     timeout |-> ExecTimeout, maxBuffer |-> ExecMaxBuffer,
     commandName |-> commandName, report |-> NoReport]

\* stdout ? stdout.toString() : ''
Text(out) == IF Truthy(out) THEN out ELSE ""

\* Variant: err.code and err.signal sent as they are, without `|| null`.
ErrorBodyRaw(commandName, err, stdout, stderr) ==
    [command |-> commandName, allowed |-> "true", error |-> err.message,
     exitCode |-> err.code, signal |-> err.signal,
     stdout |-> Text(stdout), stderr |-> Text(stderr)]
\* The object sent when the runner reported an error, app.js:129-139.
ErrorBody(commandName, err, stdout, stderr) ==
    [command |-> commandName, allowed |-> "true", error |-> err.message,
     exitCode |-> Or(err.code, Null), signal |-> Or(err.signal, Null),
     stdout |-> Text(stdout), stderr |-> Text(stderr)]

\* The object sent on success, app.js:143-148.
SuccessBody(commandName, stdout, stderr) ==
    [command |-> commandName, allowed |-> "true",
     stdout |-> Text(stdout), stderr |-> Text(stderr)]

\* Variant: the error branch does not return, and the success response is
\* written after it.
CallbackNoReturn(r, commandName, err, stdout, stderr) ==
    LET r1 == IF err # NullError
              THEN sendJson(r, 200, ErrorBody(commandName, err, stdout, stderr))
              ELSE r
    IN  sendJson(r1, 200, SuccessBody(commandName, stdout, stderr))
\* Variant: the error branch returns without responding.
CallbackSilentOnError(r, commandName, err, stdout, stderr) ==
    IF err # NullError THEN r
    ELSE sendJson(r, 200, SuccessBody(commandName, stdout, stderr))
\* The completion callback, app.js:126-149: the response it writes to the
\* res it closes over.
Callback(r, commandName, err, stdout, stderr) ==
    IF err # NullError
    THEN sendJson(r, 200, ErrorBody(commandName, err, stdout, stderr))
    ELSE sendJson(r, 200, SuccessBody(commandName, stdout, stderr))

-----------------------------------------------------------------------------
(* The request handler, app.js:24-161.  Each part yields the response      *)
(* object as written, the subprocess started, and where it threw.          *)

Done(r) == [res |-> r, child |-> NoChild, threw |-> "none"]

\* Variant: the catch block sends the message of the exception.
CatchLeaks(r, e) ==
    [res |-> sendJson(r, 500, [error |-> e.failure]), child |-> NoChild, threw |-> "url"]
\* catch (e), app.js:157-160
Catch(r, e) ==
    [res |-> sendJson(r, 500, [error |-> "Internal server error"]),
     child |-> NoChild, threw |-> "url"]

\* app.js:111-151: the command parameter, the registry lookup, exec
CmdLookup(r, request, fullUrl) ==
    LET commandName == SearchParamsGet(fullUrl.query, "command")
    IN  IF ~Truthy(commandName)
        THEN Done(sendJson(r, 400, [error |-> "Missing \"command\" query parameter"]))
        ELSE IF ~HasOwnProperty(ALLOWED_COMMANDS, commandName)
        THEN Done(sendJson(r, 403, [error |-> "Command not allowed"]))
        ELSE [res |-> r,
              child |-> Exec(GetProperty(ALLOWED_COMMANDS, commandName), commandName),
              threw |-> "none"]

\* app.js:102-109: the x-api-key check
Unauthorized(request) ==
    LET provided == Or(request.headers["x-api-key"], "")
    IN  REQUIRE_API_KEY /\ (~Truthy(provided) \/ provided # ADMIN_API_KEY)

\* Variant: the key is checked before the method.
CmdRouteAuthFirst(r, request, fullUrl) ==
    IF Unauthorized(request)
    THEN Done(sendJson(r, 401, [error |-> "Unauthorized: missing or invalid API key"]))
    ELSE IF request.method # "GET"
    THEN Done(sendJson(r, 405, [error |-> "Method not allowed. Use GET."]))
    ELSE CmdLookup(r, request, fullUrl)
\* app.js:95-152: the /cmd route
CmdRoute(r, request, fullUrl) ==
    IF request.method # "GET"
    THEN Done(sendJson(r, 405, [error |-> "Method not allowed. Use GET."]))
    ELSE IF Unauthorized(request)
    THEN Done(sendJson(r, 401, [error |-> "Unauthorized: missing or invalid API key"]))
    ELSE CmdLookup(r, request, fullUrl)

\* app.js:42-81: the page, which shows the configured port
HomePage == [raw |-> "<!DOCTYPE html>", port |-> PORT]

\* app.js:85-92
Health == [status |-> "healthy", timestamp |-> "now", uptime_seconds |-> "uptime"]

\* app.js:39-156: routing on the parsed pathname
Route(r, request, fullUrl) ==
    LET pathname == fullUrl.pathname
    IN  IF IsPath(pathname, "/") \/ IsPath(pathname, "index.html")
        THEN Done(End(WriteHead(r, 200, [ctype |-> "text/html"]), HomePage))
        ELSE IF IsPath(pathname, "health")
        THEN Done(sendJson(r, 200, Health))
        ELSE IF IsPath(pathname, "cmd")
        THEN CmdRoute(r, request, fullUrl)
        ELSE Done(End(WriteHead(r, 404, [ctype |-> "text/plain"]), Raw("Not Found")))

\* app.js:37-160: try { ... } catch (e) { ... }
Try(r, request) ==
    LET fullUrl == NewURL(request.url, request.headers["host"])
    IN  IF fullUrl = Failure THEN Catch(r, fullUrl) ELSE Route(r, request, fullUrl)

\* Variant: no short-circuit for OPTIONS.
IsPreflightNever(request) == FALSE
\* app.js:31-35: the OPTIONS short-circuit
IsPreflight(request) == request.method = "OPTIONS"

\* app.js:24-161
Handler(request) ==
    LET r == SetCorsHeaders(NewResponse)
    IN  IF IsPreflight(request)
        THEN Done(End(WriteHead(r, 200, <<>>), Raw("")))
        ELSE Try(r, request)

-----------------------------------------------------------------------------
(* Requests. *)

Request(method, segs, query, host, key) ==
    [method |-> method, url |-> [segs |-> segs, query |-> query],
     headers |-> ("host" :> host @@ "x-api-key" :> key)]

Methods == {"GET", "POST", "OPTIONS"}
Segments == {"", ".", "..", "cmd", "health", "index.html", "x", "CMD"}
Queries ==
    { <<>>,
      << <<"command", "">> >>,
      << <<"command", "uptime">> >>,
      << <<"command", "disk">> >>,
      << <<"command", "Uptime">> >>,
      << <<"command", "toString">> >>,
      << <<"Command", "uptime">> >>,
      << <<"command", "bogus">>, <<"command", "uptime">> >> }
Hosts == {Undefined, BadHost}
ApiKeys == {Undefined, "", "secret", "wrong"}

\* Raw paths of up to MaxPathLen segments; where the path names an
\* authority ("//host"), the host is an ordinary name.
RawPaths ==
    {p \in UNION {[1..n -> Segments] : n \in 1..MaxPathLen} :
        Len(p) >= 2 /\ p[1] = "" =>
            (SkipSlashes(p) = <<>> \/ Head(SkipSlashes(p)) \notin {".", ".."})}

\* The requests of the single-request specification.
AllRequests ==
    {Request(m, p, q, h, k) :
        m \in Methods, p \in RawPaths, q \in Queries, h \in Hosts, k \in ApiKeys}

\* The requests of the concurrent specifications.
SomeRequests ==
    { Request("OPTIONS", <<"cmd">>, << <<"command", "uptime">> >>, Undefined, Undefined),
      Request("GET", <<"">>, <<>>, Undefined, Undefined),
      Request("POST", <<"x">>, <<>>, Undefined, Undefined),
      Request("GET", <<"", "">>, <<>>, Undefined, Undefined),
      Request("GET", <<"cmd">>, << <<"command", "uptime">> >>, BadHost, "secret"),
      Request("POST", <<"cmd">>, << <<"command", "uptime">> >>, Undefined, "secret"),
      Request("GET", <<"cmd">>, <<>>, Undefined, "secret"),
      Request("GET", <<"cmd">>, << <<"command", "Uptime">> >>, Undefined, "secret"),
      Request("GET", <<"cmd">>, << <<"command", "uptime">> >>, Undefined, Undefined),
      Request("GET", <<"cmd">>, << <<"command", "uptime">> >>, Undefined, "secret"),
      Request("GET", <<"cmd">>, << <<"command", "disk">> >>, Undefined, "secret") }

-----------------------------------------------------------------------------
(* The state machine. *)

\* Process start, app.js:5-17, before any request.
Init ==
    /\ env \in Environments
    /\ PORT = PortOf(env)
    /\ REQUIRE_API_KEY = RequireApiKeyOf(env)
    /\ ADMIN_API_KEY = AdminApiKeyOf(env)
    /\ ALLOWED_COMMANDS = AllowedCommands
    /\ req = [i \in Conns |-> NoReq]
    /\ res = [i \in Conns |-> NewResponse]
    /\ child = [i \in Conns |-> NoChild]
    /\ threw = [i \in Conns |-> "none"]
    /\ alive = TRUE

\* Variant: res kept in one variable shared by all requests, so that the
\* callback writes to the response of the latest request.
CallbackTargetLatest(i) ==
    CHOOSE j \in Conns : req[j] # NoReq /\ \A k \in Conns : req[k] # NoReq => k <= j
\* The response object the completion callback of connection i writes to:
\* the res of its own request, which the callback closes over.
CallbackTarget(i) == i

\* A request arrives on connection i and the handler runs, app.js:24-161.
Receive(i, request) ==
    /\ alive
    /\ req[i] = NoReq
    /\ LET h == Handler(request)
       IN  /\ req' = [req EXCEPT ![i] = request]
           /\ res' = [res EXCEPT ![i] = h.res]
           /\ child' = [child EXCEPT ![i] = h.child]
           /\ threw' = [threw EXCEPT ![i] = h.threw]
    /\ UNCHANGED <<config, alive>>

\* The subprocess of connection i ends and exec calls back, app.js:126-149.
Complete(i, kind) ==
    /\ alive
    /\ child[i].pending
    /\ LET report == CHOOSE x \in RunnerReports(child[i].cmd, i) : x.kind = kind
           t == CallbackTarget(i)
       IN  /\ res' = [res EXCEPT ![t] = Callback(res[t], child[i].commandName,
                                        report.err, report.stdout, report.stderr)]
           /\ child' = [child EXCEPT ![i].pending = FALSE, ![i].report = report]
    /\ UNCHANGED <<config, req, threw, alive>>

Next ==
    \/ \E i \in Conns, request \in SomeRequests : Receive(i, request)
    \/ \E i \in Conns, kind \in ReportKinds : Complete(i, kind)

Spec == Init /\ [][Next]_vars

\* One connection, every request of AllRequests.
NextOne ==
    \/ req[1] = NoReq /\ \E request \in AllRequests : Receive(1, request)
    \/ \E kind \in ReportKinds : Complete(1, kind)

SpecOne == Init /\ [][NextOne]_vars

\* The event loop runs the callback of every subprocess that ends, and the
\* runner ends every subprocess (exit, timeout or output cap).
Fairness == \A i \in Conns : WF_vars(\E kind \in ReportKinds : Complete(i, kind))

FairSpec == Spec /\ Fairness

-----------------------------------------------------------------------------
(* Exceptions other than the URL parser's.  The try block of the handler   *)
(* (app.js:37-160) encloses the synchronous part only; the callback of     *)
(* exec runs later, from the event loop.  An exception that escapes ends   *)
(* the process.                                                            *)

\* res.end throws after res.writeHead has written the status line.  Inside
\* the try block the catch then calls sendJson, whose writeHead throws in
\* turn because the headers are sent; outside it nothing catches.
ReceiveEndThrows(i, request) ==
    /\ alive
    /\ req[i] = NoReq
    /\ LET h == Handler(request)
       IN  /\ Len(h.res.head) = 1
           /\ req' = [req EXCEPT ![i] = request]
           /\ res' = [res EXCEPT ![i] = [h.res EXCEPT !.body = <<>>]]
           /\ child' = [child EXCEPT ![i] = h.child]
           /\ threw' = [threw EXCEPT ![i] = "write"]
    /\ alive' = FALSE
    /\ UNCHANGED config

\* The callback of exec throws before it writes, app.js:126-149.
CallbackThrows(i, kind) ==
    /\ alive
    /\ child[i].pending
    /\ LET report == CHOOSE x \in RunnerReports(child[i].cmd, i) : x.kind = kind
       IN  child' = [child EXCEPT ![i].pending = FALSE, ![i].report = report]
    /\ threw' = [threw EXCEPT ![i] = "callback"]
    /\ alive' = FALSE
    /\ UNCHANGED <<config, req, res>>

NextFault ==
    \/ \E i \in Conns, request \in SomeRequests : Receive(i, request)
    \/ \E i \in Conns, kind \in ReportKinds : Complete(i, kind)
    \/ \E i \in Conns, request \in SomeRequests : ReceiveEndThrows(i, request)
    \/ \E i \in Conns, kind \in ReportKinds : CallbackThrows(i, kind)

SpecFault == Init /\ [][NextFault]_vars

-----------------------------------------------------------------------------
(* Vocabulary of the properties. *)

Received(i) == req[i] # NoReq

\* Exactly one status line and one body were written to connection i.
Answered(i) == Len(res[i].head) = 1 /\ Len(res[i].body) = 1

Untouched(i) == res[i].head = <<>> /\ res[i].body = <<>>

\* The status and the body first written, if any.
Status(i) == IF res[i].head = <<>> THEN 0 ELSE res[i].head[1]
Body(i) == IF res[i].body = <<>> THEN [none |-> "none"] ELSE res[i].body[1]

AnsweredWith(i, code, body) == Answered(i) /\ Status(i) = code /\ Body(i) = body

JsonError(message) == [error |-> message]

\* The request of connection i as the URL parser sees it.
Parsed(i) == NewURL(req[i].url, req[i].headers["host"])
Parses(i) == Received(i) /\ Parsed(i) # Failure
\* The pathname "/" is the empty path or the path of one empty segment.
PathIs(i, name) ==
    /\ Parses(i)
    /\ Parsed(i).pathname \in (IF name = "/" THEN {<<>>, <<"">>} ELSE {<<name>>})
Routed(i) ==
    PathIs(i, "/") \/ PathIs(i, "index.html") \/ PathIs(i, "health") \/ PathIs(i, "cmd")
CommandOf(i) == SearchParamsGet(Parsed(i).query, "command")
KeyOf(i) == req[i].headers["x-api-key"]

\* A non-empty admin key was configured at startup.
KeyConfigured == env.ADMIN_API_KEY \notin {Undefined, ""}
KeyMatches(i) == KeyOf(i) = env.ADMIN_API_KEY

\* The names of the registry, app.js:13-15.
RegistryKeys == {"uptime", "disk", "memory"}

-----------------------------------------------------------------------------
\* C1: every request gets exactly one response: nothing is written to a
\* connection without a request, at most one status line and one body are
\* ever written to a connection, a request handled without a subprocess is
\* answered by the handler, and a /cmd request that started a subprocess has
\* nothing written while the subprocess runs and exactly one response once
\* the runner has reported, whatever the order of arrivals and completions.
C1_ExactlyOneResponse ==
    \A i \in Conns :
        /\ Len(res[i].head) <= 1 /\ Len(res[i].body) <= 1
        /\ ~Received(i) => Untouched(i)
        /\ child[i].pending => Untouched(i)
        /\ Received(i) /\ ~child[i].pending => Answered(i)

\* Two commands ran concurrently, one ended by the timeout, one overflowed,
\* and both requests are answered.
C1_Witness ==
    \E i, j \in Conns :
        /\ child[i].started /\ ~child[i].pending /\ child[i].report.kind = "timeout"
        /\ child[j].started /\ ~child[j].pending /\ child[j].report.kind = "overflow"
        /\ Answered(i) /\ Answered(j)

-----------------------------------------------------------------------------
\* C2: a subprocess is started only for a request whose command parameter
\* is exactly a key of the registry, and it runs that key's value; a GET
\* /cmd request that passes the key check with a non-empty command that is
\* no key of the registry is answered 403 "Command not allowed" and starts
\* nothing.
C2_OnlyRegisteredCommandsRun ==
    \A i \in Conns :
        /\ child[i].started =>
              /\ Parses(i)
              /\ CommandOf(i) \in RegistryKeys
              /\ child[i].cmd = AllowedCommands[CommandOf(i)]
        /\ ( /\ PathIs(i, "cmd") /\ req[i].method = "GET"
             /\ (KeyConfigured => KeyMatches(i))
             /\ Truthy(CommandOf(i))
             /\ CommandOf(i) \notin RegistryKeys )
           => /\ AnsweredWith(i, 403, JsonError("Command not allowed"))
              /\ ~child[i].started

\* The name of an inherited property was asked for and refused.
C2_Witness ==
    \E i \in Conns :
        /\ PathIs(i, "cmd") /\ req[i].method = "GET"
        /\ CommandOf(i) = "toString"
        /\ Status(i) = 403 /\ ~child[i].started

-----------------------------------------------------------------------------
\* C3: a GET /cmd request is answered 401 exactly when a non-empty key was
\* configured and the x-api-key header is absent, empty or different; with
\* a key configured no subprocess starts without the exact key; with no key
\* configured (unset or empty) no request is answered 401.
C3_UnauthorizedIffKeyMismatch ==
    \A i \in Conns :
        /\ (PathIs(i, "cmd") /\ req[i].method = "GET") =>
              ( AnsweredWith(i, 401, JsonError("Unauthorized: missing or invalid API key"))
                <=> (KeyConfigured /\ ~KeyMatches(i)) )
        /\ (KeyConfigured /\ child[i].started) => KeyMatches(i)
        /\ ~KeyConfigured => \A n \in DOMAIN res[i].head : res[i].head[n] # 401

\* A wrong key was refused while a key was configured.
C3_Witness ==
    \E i \in Conns :
        /\ PathIs(i, "cmd") /\ req[i].method = "GET"
        /\ KeyConfigured /\ KeyOf(i) = "wrong"
        /\ Status(i) = 401

-----------------------------------------------------------------------------
\* C4: once the runner has reported, the request is answered 200; the body
\* has an error field exactly when the runner reported a failure, and then
\* exitCode and signal are both present, each the reported value or null;
\* on success the body has exactly command, allowed, stdout and stderr.
C4_CommandResultIs200 ==
    \A i \in Conns :
        (child[i].started /\ ~child[i].pending) =>
            LET rep == child[i].report
            IN  /\ Answered(i) /\ Status(i) = 200
                /\ Body(i).allowed = "true"
                /\ ("error" \in DOMAIN Body(i)) <=> (rep.kind # "success")
                /\ rep.kind # "success" =>
                      /\ DOMAIN Body(i) = {"command", "allowed", "error", "exitCode",
                                           "signal", "stdout", "stderr"}
                      /\ Body(i).exitCode =
                            (IF rep.err.code \in {Undefined, Null} THEN Null
                             ELSE rep.err.code)
                      /\ Body(i).signal =
                            (IF rep.err.signal \in {Undefined, Null} THEN Null
                             ELSE rep.err.signal)
                /\ rep.kind = "success" =>
                      DOMAIN Body(i) = {"command", "allowed", "stdout", "stderr"}

\* The output cap was hit and reported as an error.
C4_Witness ==
    \E i \in Conns :
        /\ child[i].started /\ ~child[i].pending
        /\ child[i].report.kind = "overflow"
        /\ Answered(i) /\ "error" \in DOMAIN Body(i)

-----------------------------------------------------------------------------
\* C5: an OPTIONS request, whatever its path, key, command or URL, is
\* answered 200 with an empty body and the three CORS headers and nothing
\* else happens: no URL is parsed, no subprocess is started.
C5_PreflightShortCircuit ==
    \A i \in Conns :
        (Received(i) /\ req[i].method = "OPTIONS") =>
            /\ AnsweredWith(i, 200, Raw(""))
            /\ res[i].headers = CORS
            /\ ~child[i].started
            /\ threw[i] = "none"

\* OPTIONS with a URL that does not parse.
C5_Witness ==
    \E i \in Conns :
        /\ Received(i) /\ req[i].method = "OPTIONS"
        /\ Parsed(i) = Failure
        /\ Answered(i) /\ Status(i) = 200

-----------------------------------------------------------------------------
\* C6, as claimed: every request, of every method, whose URL has a pathname
\* outside "/", "/index.html", "/health", "/cmd" is answered 404 "Not Found".
C6_NotFoundEveryMethod ==
    \A i \in Conns :
        (Parses(i) /\ ~Routed(i)) => AnsweredWith(i, 404, Raw("Not Found"))

\* C6, amended: every request of a method other than OPTIONS whose URL
\* parses to a pathname outside that set is answered 404, text/plain,
\* "Not Found"; an OPTIONS request is answered 200 whatever its path.
C6_NotFoundUnlessPreflight ==
    \A i \in Conns :
        (Parses(i) /\ ~Routed(i) /\ req[i].method # "OPTIONS") =>
            /\ AnsweredWith(i, 404, Raw("Not Found"))
            /\ res[i].headers["ctype"] = "text/plain"

\* POST /CMD is not found.
C6_Witness ==
    \E i \in Conns :
        /\ Parses(i) /\ Parsed(i).pathname = <<"CMD">>
        /\ req[i].method = "POST"
        /\ Status(i) = 404

-----------------------------------------------------------------------------
-----------------------------------------------------------------------------
\* C8: every request received is eventually answered: a request whose
\* command was started is answered once the runner reports, which it does;
\* and while a command runs, a free connection still accepts and answers
\* any request.
C8_EveryRequestAnswered ==
    /\ \A i \in Conns : Received(i) ~> Answered(i)
    /\ [](\A i, j \in Conns :
            (child[i].pending /\ ~Received(j)) =>
                \A request \in SomeRequests : ENABLED Receive(j, request))

\* A command that timed out was answered.
C8_Witness ==
    \E i \in Conns :
        /\ child[i].started /\ child[i].report.kind = "timeout"
        /\ Answered(i)

-----------------------------------------------------------------------------
\* C9: on /cmd the checks apply in the order method, key, command
\* parameter, registry: a method other than GET is answered 405 whatever
\* the key; a GET without the valid key is answered 401 whatever the
\* command; then a missing or empty command is answered 400, and only then
\* an unknown command 403.
C9_CheckOrder ==
    \A i \in Conns :
        (PathIs(i, "cmd") /\ req[i].method # "OPTIONS") =>
            LET keyBad == KeyConfigured /\ ~KeyMatches(i)
            IN  IF req[i].method # "GET"
                THEN AnsweredWith(i, 405, JsonError("Method not allowed. Use GET."))
                ELSE IF keyBad
                THEN AnsweredWith(i, 401,
                         JsonError("Unauthorized: missing or invalid API key"))
                ELSE IF CommandOf(i) \in {Null, ""}
                THEN AnsweredWith(i, 400,
                         JsonError("Missing \"command\" query parameter"))
                ELSE IF CommandOf(i) \notin RegistryKeys
                THEN AnsweredWith(i, 403, JsonError("Command not allowed"))
                ELSE child[i].started

\* POST /cmd without the configured key is answered 405, not 401.
C9_Witness ==
    \E i \in Conns :
        /\ PathIs(i, "cmd") /\ req[i].method = "POST"
        /\ KeyConfigured /\ ~KeyMatches(i)
        /\ Status(i) = 405

-----------------------------------------------------------------------------
\* The state part of C10: the response of a command is written to
\* the connection of its own request, names that request's command and
\* carries the output of that request's subprocess; two requests that are
\* equal and started no subprocess have equal responses; and no step
\* changes the registry, the port or the admin key.
C10_OwnResponse ==
    \A i \in Conns :
        /\ (child[i].started /\ ~child[i].pending) =>
              /\ Answered(i)
              /\ Body(i).command = CommandOf(i)
              /\ child[i].report \in RunnerReports(AllowedCommands[CommandOf(i)], i)
              /\ Body(i).stdout = child[i].report.stdout
              /\ Body(i).stderr = child[i].report.stderr
        /\ \A j \in Conns :
              (Received(i) /\ req[i] = req[j] /\ ~child[i].started) => res[i] = res[j]

\* C10: in every state each command response is its own request's (the
\* state predicate above), and no step of any request or callback changes
\* the registry, the port or the admin key.
C10_Independent == []C10_OwnResponse /\ [][UNCHANGED config]_vars

\* Two different commands ran on two connections and both are answered.
C10_Witness ==
    \E i, j \in Conns :
        /\ child[i].started /\ child[j].started
        /\ child[i].commandName = "uptime" /\ child[j].commandName = "disk"
        /\ Answered(i) /\ Answered(j)

====
